---- MODULE Spec2Model ----
(***************************************************************************)
(* vite-plugin-generate-html-i18n: the closeBundle stage of the plugin     *)
(* returned by viteGenerateHtmlI18n(options).                               *)
(*                                                                         *)
(* closeBundle is synchronous and single threaded.  It is modelled as a    *)
(* sequence of steps so that the order of reads, hook calls and writes,    *)
(* and the point at which an exception leaves the function, are visible.   *)
(*                                                                         *)
(* Representation                                                          *)
(*   - a path is a sequence of segments; path.join / dirname / basename    *)
(*     act on single-segment names;                                        *)
(*   - a JavaScript string is a sequence of text chunks, the empty string  *)
(*     is << >>; the value undefined is the sentinel Undefined;            *)
(*   - an HTML text is a record (lang, afterSeen, elems); a Document       *)
(*     parsed from it carries in addition the identity of the JSDOM        *)
(*     instance that owns it;                                              *)
(*   - caller-supplied functions are drawn from small sets of behaviours,  *)
(*     and every call of one may throw.                                    *)
(***************************************************************************)
EXTENDS Integers, Sequences, FiniteSets, TLC

\* ------------------------------------------------------------------ bounds
MaxElems == 2      \* elements per template

\* ------------------------------------------------------- JavaScript values
Undefined == <<"\\undefined">>
Null == "\\null"
EmptyString == << >>
Str(s) == <<s>>

\* JavaScript truthiness of a string-or-undefined value
Falsy(v) == v = Undefined \/ v = EmptyString

\* JavaScript truthiness of a key (string or null)
TruthyKey(k) == k # Null /\ k # ""

\* ToString conversion applied by template literals and by the innerHTML setter
JsToString(v) == IF v = Undefined THEN Str("undefined") ELSE v

\* ------------------------------------------------------------------- paths
outputPath == <<"dist">>

Dirname(p) == SubSeq(p, 1, Len(p) - 1)
Basename(p) == p[Len(p)]
Join(p, seg) == Append(p, seg)

\* every directory on the way to p, p included (mkdirSync recursive)
Ancestors(p) == {SubSeq(p, 1, n) : n \in 1..Len(p)}


\* path.join(path.dirname(filePath), lang)                       (line 301)
LanguagePath(filePath, language) == Join(Dirname(filePath), language)

PagePathNoLanguage(filePath, language) == Join(Dirname(filePath), Basename(filePath))

\* path.join(languagePath, path.basename(filePath))               (line 307)
PagePath(filePath, language) ==
    Join(LanguagePath(filePath, language), Basename(filePath))

\* --------------------------------------------------------- HTML, Documents
Element(matches, key) ==
    [matches |-> matches, key |-> key, inner |-> Str("x"), stamp |-> << >>]

\* an element the selector does not match, and the three values the
\* extraction function can give for one it does match
ElementKinds ==
    {Element(FALSE, "hello")} \cup {Element(TRUE, k) : k \in {Null, "", "hello"}}

SeqsUpTo(S, n) == UNION {[1..k -> S] : k \in 0..n}

Html(lang, after, elems) == [lang |-> lang, after |-> after, elems |-> elems]

Templates == {Html("", "", es) : es \in SeqsUpTo(ElementKinds, MaxElems)}

\* new JSDOM(html): a Document of its own, owned by JSDOM instance id
Parse(html, id) ==
    [id |-> id, lang |-> html.lang, after |-> html.after, elems |-> html.elems]

\* jsdom.serialize()
Serialize(doc) == Html(doc.lang, doc.after, doc.elems)

NoDocument == [id |-> 0, lang |-> "", after |-> "", elems |-> << >>]

RECURSIVE Matching(_, _)
\* document.querySelectorAll(selector): the matching elements, document order
Matching(elems, i) ==
    IF i > Len(elems) THEN << >>
    ELSE (IF elems[i].matches THEN <<i>> ELSE << >>) \o Matching(elems, i + 1)

QuerySelectorAll(doc) == Matching(doc.elems, 1)

\* ------------------------------------------------------------ translations
\* Object.keys(translations) of the tables checked             (line 188)
LanguageLists == {<<"en">>, <<"en", "fr">>}

Word(language) == IF language = "en" THEN Str("Hello") ELSE Str("Bonjour")

\* the tables a language can have: no key, "hello" with an empty value,
\* "hello" with the language's word
TablesOf(language) ==
    {[k \in {} |-> EmptyString]}
        \cup {[k \in {"hello"} |-> v] : v \in {EmptyString, Word(language)}}

\* translations[lang][key]
Lookup(table, key) == IF key \in DOMAIN table THEN table[key] ELSE Undefined

\* ------------------------------------------------ caller-supplied functions
\* getTranslationKey: (element) => element.getAttribute("data-i18n")
GetTranslationKey(el) == el.key

\* formatTranslation: (value) => `<b>${value}</b>`
FormatTranslation(value, key, language) ==
    <<"<b>">> \o JsToString(value) \o <<"</b>">>

\* modifyElement: records on the element the value it was given and the
\* inner content it found
ModifyElement(el, value, key, language) ==
    [el EXCEPT !.stamp = <<value, el.inner>>]

\* modifyDocumentBefore: document.documentElement.setAttribute("lang", language)
ModifyDocumentBefore(doc, language) == [doc EXCEPT !.lang = language]

\* modifyDocumentAfter: sets a second document-level attribute
ModifyDocumentAfter(doc, language) == [doc EXCEPT !.after = language]

\* missingTranslationVerboseFilter: the default () => true, or the README's
\* (key, language) => language !== "en"
MissingTranslationVerboseFilter(kind, key, language) ==
    IF kind = "default" THEN TRUE ELSE language # "en"


\* ------------------------------------------------------------------- state
VARIABLES
    options,              \* the plugin's options (lines 175-186), fixed for the run
    fs,                   \* the files on disk: path -> HTML text
    dirs,                 \* the directories on disk
    pc,                   \* where closeBundle is
    htmlFilePaths,        \* line 206
    htmlResultFilePaths,  \* line 228
    langIdx,              \* position of languages.forEach (line 230)
    fileIdx,              \* position of htmlFilePaths.map / updatedHtmlFiles.forEach
    updatedHtmlFiles,     \* line 231
    document,             \* the Document of the pass in progress (line 236)
    elements,             \* line 245
    elemIdx,              \* position of elements.forEach (line 247)
    jsdomCount,           \* JSDOM instances constructed so far
    trace,                \* what the run has done so far, in order
    sourceFs              \* the files on disk when closeBundle was entered

vars == <<options, fs, dirs, pc, htmlFilePaths, htmlResultFilePaths, langIdx,
          fileIdx, updatedHtmlFiles, document, elements, elemIdx, jsdomCount,
          trace, sourceFs>>

Event(op, file, language, key, value, seen, path) ==
    [op |-> op, file |-> file, lang |-> language, key |-> key,
     value |-> value, seen |-> seen, path |-> path]

\* a step that involves no element
Did(op, file, language, seen, path) ==
    Event(op, file, language, "", EmptyString, seen, path)

\* the files a build can have left under the output directory
SourcePaths == {<<"dist", "index.html">>, <<"dist", "en", "index.html">>}

Range(s) == {s[i] : i \in DOMAIN s}

Orders(S) == {s \in [1..Cardinality(S) -> S] : Range(s) = S}

\* the pattern the glob option gives: the default `${outputPath}/*.html`
\* or a recursive `${outputPath}/**/*.html`, handed to globSync
GlobSync(kind, files) ==
    IF kind = "default" THEN {p \in DOMAIN files : Dirname(p) = outputPath}
    ELSE DOMAIN files

\* the options a caller can pass (lines 13-148, 175-186), with the hooks
\* configured drawn from hooks and the diagnostics from modes;
\* deleteSourceHtmlFiles is the README's option
OptionsWith(delete, globs, hooks, modes) ==
    UNION {
      {[glob |-> g, languages |-> ls, translations |-> tr,
        formatTranslation |-> h[1], modifyElement |-> h[2],
        modifyDocumentBefore |-> h[3], modifyDocumentAfter |-> h[4],
        verbose |-> vm[1], missingTranslationVerboseFilter |-> vm[2],
        deleteSourceHtmlFiles |-> delete] :
          g \in globs,
          tr \in {t \in [Range(ls) -> UNION {TablesOf(l) : l \in Range(ls)}] :
                    \A l \in Range(ls) : t[l] \in TablesOf(l)},
          h \in hooks, vm \in modes}
      : ls \in LanguageLists}

AllHooks == BOOLEAN \X BOOLEAN \X BOOLEAN \X BOOLEAN

AllModes == {<<FALSE, "default">>, <<TRUE, "default">>, <<TRUE, "notEn">>}

\* a page all of whose elements are selected and carry the key "hello"
Pages == {t \in Templates : \A i \in DOMAIN t.elems : t.elems[i] = Element(TRUE, "hello")}

\* The builds checked.  A build with a single page of any shape, under every
\* combination of options; and a build with any of the files of SourcePaths,
\* under either glob, with all hooks configured or none.
Builds(delete) ==
    (OptionsWith(delete, {"default"}, AllHooks, AllModes)
        \X [{<<"dist", "index.html">>} -> Templates])
    \cup
    (OptionsWith(delete, {"default", "recursive"},
                 {<<FALSE, FALSE, FALSE, FALSE>>, <<TRUE, TRUE, TRUE, TRUE>>},
                 {<<TRUE, "default">>})
        \X UNION {[S -> Pages] : S \in SUBSET SourcePaths})

InitWith(delete) ==
    /\ \E b \in Builds(delete) : options = b[1] /\ fs = b[2]
    /\ dirs = UNION {Ancestors(Dirname(p)) : p \in DOMAIN fs} \cup {outputPath}
    /\ pc = "closeBundle"
    /\ htmlFilePaths = << >>
    /\ htmlResultFilePaths = << >>
    /\ langIdx = 0
    /\ fileIdx = 0
    /\ updatedHtmlFiles = << >>
    /\ document = NoDocument
    /\ elements = << >>
    /\ elemIdx = 0
    /\ jsdomCount = 0
    /\ trace = << >>
    /\ sourceFs = fs

Init == InitWith(FALSE)

\* ------------------------------------------------------------- closeBundle
lang == options.languages[langIdx]
filePath == htmlFilePaths[fileIdx]

NoFilesFoundNever(paths) == FALSE

\* htmlFilePaths.length === 0                                     (line 208)
NoFilesFound(paths) == Len(paths) = 0

OnThrowSwallowed(next) == next

\* an exception thrown by a callee: nothing in closeBundle catches it, so
\* it leaves closeBundle whatever the step that would have come next
OnThrow(next) == "thrown"

\* lines 204-228
CloseBundle ==
    /\ pc = "closeBundle"
    /\ \E order \in Orders(GlobSync(options.glob, fs)) :
        /\ htmlFilePaths' = order
        /\ IF NoFilesFound(order)
           THEN /\ pc' = "returned"
                /\ trace' = Append(trace, Did("log.notFound", << >>, "", "", << >>))
                /\ UNCHANGED <<langIdx, fileIdx>>
           ELSE /\ pc' = "readFile"
                /\ trace' = Append(trace, Did("log.scan", << >>, "", "", << >>))
                /\ langIdx' = 1
                /\ fileIdx' = 1
    /\ UNCHANGED <<options, fs, dirs, htmlResultFilePaths, updatedHtmlFiles,
                   document, elements, elemIdx, jsdomCount, sourceFs>>

\* lines 232-236: readFileSync, new JSDOM
ReadFile ==
    /\ pc = "readFile"
    /\ filePath \in DOMAIN fs
    /\ jsdomCount' = jsdomCount + 1
    /\ document' = Parse(fs[filePath], jsdomCount + 1)
    /\ trace' = Append(trace, Did("readFile", filePath, lang, "", filePath))
    /\ pc' = "modifyDocumentBefore"
    /\ UNCHANGED <<options, fs, dirs, htmlFilePaths, htmlResultFilePaths, langIdx,
                   fileIdx, updatedHtmlFiles, elements, elemIdx, sourceFs>>

\* lines 238-245: the before-hook when configured, then querySelectorAll
DocumentBefore ==
    /\ pc = "modifyDocumentBefore"
    /\ \/ /\ ~options.modifyDocumentBefore
          /\ trace' = trace
          /\ document' = document
          /\ elements' = QuerySelectorAll(document)
          /\ elemIdx' = 1
          /\ pc' = "elements"
       \/ /\ options.modifyDocumentBefore
          /\ document' = ModifyDocumentBefore(document, lang)
          /\ trace' = Append(trace,
                Did("modifyDocumentBefore", filePath, lang, document.lang, << >>))
          /\ elements' = QuerySelectorAll(document')
          /\ elemIdx' = 1
          /\ pc' = "elements"
       \/ /\ options.modifyDocumentBefore
          /\ trace' = trace \o
                <<Did("modifyDocumentBefore", filePath, lang, document.lang, << >>),
                  Did("throw", filePath, lang, document.lang, << >>)>>
          /\ pc' = OnThrow("elements")
          /\ UNCHANGED <<document, elements, elemIdx>>
    /\ UNCHANGED <<options, fs, dirs, htmlFilePaths, htmlResultFilePaths, langIdx,
                   fileIdx, updatedHtmlFiles, jsdomCount, sourceFs>>

DefaultTranslationRaw(value) == value

\* translations[lang][key] || ""                                 (line 274)
DefaultTranslation(value) == IF Falsy(value) THEN EmptyString ELSE value

HasKeyAlways(key) == TRUE

\* if (key)                                                       (line 250)
HasKey(key) == TruthyKey(key)

\* !translations[lang][key]                                       (line 251)
TranslationNotFound(value) == Falsy(value)

ModifyElementValueRendered(value, rendered) == rendered

\* the second argument of modifyElement: translations[lang][key]  (line 278)
ModifyElementValue(value, rendered) == value

\* the functions of lines 248-283 whose call can throw
ElementCalls ==
    {"getTranslationKey", "missingTranslationVerboseFilter",
     "formatTranslation", "modifyElement"}

\* lines 248-283 for the element at index i of doc: what is done, in order,
\* and the Document left behind, when the call named by raiseAt throws
\* ("none": no call throws).  reached tells whether that call is made at all.
ElementPass(doc, i, file, language, raiseAt) ==
    LET el == doc.elems[i]
        table == options.translations[language]
        key == GetTranslationKey(el)
        value == Lookup(table, key)
        consult == TranslationNotFound(value) /\ options.verbose
        needLog == consult /\ MissingTranslationVerboseFilter(
                        options.missingTranslationVerboseFilter, key, language)
        rendered == IF options.formatTranslation
                    THEN FormatTranslation(value, key, language)
                    ELSE DefaultTranslation(value)
        replaced == [el EXCEPT !.inner = JsToString(rendered)]
        given == ModifyElementValue(value, rendered)
        modified == ModifyElement(replaced, given, key, language)
        ev(op, v) == Event(op, file, language, key, v, doc.lang, << >>)
        extract == <<ev("getTranslationKey", EmptyString)>>
        resolve == extract \o <<ev("lookup", value)>>
                    \o (IF consult
                        THEN <<ev("missingTranslationVerboseFilter", EmptyString)>>
                        ELSE << >>)
        format == resolve
                    \o (IF needLog THEN <<ev("warn", EmptyString)>> ELSE << >>)
                    \o (IF options.formatTranslation
                        THEN <<ev("formatTranslation", value)>> ELSE << >>)
        mutate == format \o <<ev("innerHTML", rendered)>>
                    \o (IF options.modifyElement
                        THEN <<ev("modifyElement", given)>> ELSE << >>)
        thrown == <<Did("throw", file, language, doc.lang, << >>)>>
    IN  CASE raiseAt = "getTranslationKey" ->
                [reached |-> TRUE, events |-> extract \o thrown, doc |-> doc]
          [] raiseAt = "missingTranslationVerboseFilter" ->
                [reached |-> HasKey(key) /\ consult,
                 events |-> resolve \o thrown, doc |-> doc]
          [] raiseAt = "formatTranslation" ->
                [reached |-> HasKey(key) /\ options.formatTranslation,
                 events |-> format \o thrown, doc |-> doc]
          [] raiseAt = "modifyElement" ->
                [reached |-> HasKey(key) /\ options.modifyElement,
                 events |-> mutate \o thrown,
                 doc |-> [doc EXCEPT !.elems[i] = replaced]]
          [] OTHER ->
                IF HasKey(key)
                THEN [reached |-> TRUE, events |-> mutate,
                      doc |-> [doc EXCEPT !.elems[i] =
                                IF options.modifyElement THEN modified ELSE replaced]]
                ELSE [reached |-> TRUE, events |-> extract, doc |-> doc]

\* lines 247-285: one turn of elements.forEach
TranslateElement ==
    /\ pc = "elements"
    /\ elemIdx <= Len(elements)
    /\ \E raiseAt \in ElementCalls \cup {"none"} :
        LET r == ElementPass(document, elements[elemIdx], filePath, lang, raiseAt)
        IN  /\ r.reached
            /\ document' = r.doc
            /\ trace' = trace \o r.events
            /\ IF raiseAt = "none"
               THEN pc' = "elements" /\ elemIdx' = elemIdx + 1
               ELSE pc' = OnThrow("elements") /\ elemIdx' = elemIdx
    /\ UNCHANGED <<options, fs, dirs, htmlFilePaths, htmlResultFilePaths, langIdx,
                   fileIdx, updatedHtmlFiles, elements, jsdomCount, sourceFs>>

AllElementsDoneEarly(i, selected) == TRUE

\* elements.forEach has visited every selected element
AllElementsDone(i, selected) == i > Len(selected)

LastFileAlways(i, paths) == TRUE

\* htmlFilePaths.map has called back for its last path: it returns, and
\* updatedHtmlFiles.forEach starts                          (lines 230, 300)
LastFile(i, paths) == i >= Len(paths)

\* lines 287-298: the after-hook when configured, then serialize; the map
\* over htmlFilePaths goes on with the next file or, after the last, hands
\* updatedHtmlFiles to the forEach of line 300
DocumentAfter ==
    /\ pc = "elements"
    /\ AllElementsDone(elemIdx, elements)
    /\ \/ /\ TRUE
          /\ LET after == IF options.modifyDocumentAfter
                          THEN ModifyDocumentAfter(document, lang) ELSE document
                 called == IF options.modifyDocumentAfter
                           THEN <<Did("modifyDocumentAfter", filePath, lang,
                                      document.lang, << >>)>>
                           ELSE << >>
             IN /\ document' = after
                /\ trace' = trace \o called
                        \o <<Did("serialize", filePath, lang, after.lang, << >>)>>
                /\ updatedHtmlFiles' = Append(updatedHtmlFiles,
                        [filePath |-> filePath, html |-> Serialize(after)])
          /\ IF LastFile(fileIdx, htmlFilePaths)
             THEN fileIdx' = 1 /\ pc' = "writeFile"
             ELSE fileIdx' = fileIdx + 1 /\ pc' = "readFile"
       \/ /\ options.modifyDocumentAfter
          /\ trace' = trace \o
                <<Did("modifyDocumentAfter", filePath, lang, document.lang, << >>),
                  Did("throw", filePath, lang, document.lang, << >>)>>
          /\ pc' = OnThrow("readFile")
          /\ UNCHANGED <<document, updatedHtmlFiles, fileIdx>>
    /\ UNCHANGED <<options, fs, dirs, htmlFilePaths, htmlResultFilePaths, langIdx,
                   elements, elemIdx, jsdomCount, sourceFs>>

\* lines 300-323: one turn of updatedHtmlFiles.forEach; after the last,
\* languages.forEach goes on with the next language or the run ends
WriteFile ==
    /\ pc = "writeFile"
    /\ LET updated == updatedHtmlFiles[fileIdx]
           languagePath == LanguagePath(updated.filePath, lang)
           pagePath == PagePath(updated.filePath, lang)
           written == <<Did("mkdir", updated.filePath, lang, "", languagePath),
                        Did("writeFile", updated.filePath, lang, "", pagePath)>>
       IN /\ dirs' = dirs \cup Ancestors(languagePath)
          /\ fs' = (pagePath :> updated.html) @@ fs
          /\ htmlResultFilePaths' = Append(htmlResultFilePaths, pagePath)
          /\ IF fileIdx < Len(updatedHtmlFiles)
             THEN /\ fileIdx' = fileIdx + 1
                  /\ pc' = "writeFile"
                  /\ trace' = trace \o written
                  /\ UNCHANGED <<langIdx, updatedHtmlFiles>>
             ELSE IF langIdx < Len(options.languages)
             THEN /\ langIdx' = langIdx + 1
                  /\ fileIdx' = 1
                  /\ updatedHtmlFiles' = << >>
                  /\ pc' = "readFile"
                  /\ trace' = trace \o written
             ELSE /\ pc' = "done"
                  /\ trace' = trace \o written
                        \o <<Did("log.generated", << >>, "", "", << >>)>>
                  /\ UNCHANGED <<langIdx, fileIdx, updatedHtmlFiles>>
    /\ UNCHANGED <<options, htmlFilePaths, document, elements, elemIdx,
                   jsdomCount, sourceFs>>

Next ==
    \/ CloseBundle
    \/ ReadFile
    \/ DocumentBefore
    \/ TranslateElement
    \/ DocumentAfter
    \/ WriteFile

Spec == Init /\ [][Next]_vars

\* the same run with the README's deleteSourceHtmlFiles option set
InitDelete == InitWith(TRUE)

SpecDelete == InitDelete /\ [][Next]_vars

\* ------------------------------------------------------------------ claims
Steps(op) == {i \in DOMAIN trace : trace[i].op = op}

Declared == DOMAIN options.translations

Discovered == Range(htmlFilePaths)

\* <dirname(F)>/<L>/<basename(F)>
Destination(F, L) == SubSeq(F, 1, Len(F) - 1) \o <<L, F[Len(F)]>>

HookOps ==
    {"modifyDocumentBefore", "getTranslationKey", "missingTranslationVerboseFilter",
     "formatTranslation", "modifyElement", "modifyDocumentAfter"}

\* C1: when closeBundle has completed on a non-empty set of discovered files,
\* the run has written exactly one artifact for every discovered file F and
\* declared language L, at <dirname(F)>/<L>/<basename(F)>, and has written
\* nothing at any other path.
C1_OneArtifactPerFileAndLanguage ==
    pc = "done" =>
        /\ \A F \in Discovered : \A L \in Declared :
            /\ Cardinality({i \in Steps("writeFile") :
                    trace[i].file = F /\ trace[i].lang = L}) = 1
            /\ \A i \in Steps("writeFile") :
                    (trace[i].file = F /\ trace[i].lang = L)
                        => trace[i].path = Destination(F, L)
            /\ Destination(F, L) \in DOMAIN fs
        /\ \A i \in Steps("writeFile") :
            \E F \in Discovered : \E L \in Declared :
                trace[i].path = Destination(F, L)
        /\ Len(htmlResultFilePaths) = Cardinality(Discovered) * Cardinality(Declared)

C1_Witness ==
    /\ pc = "done"
    /\ Cardinality(Discovered) = 2
    /\ Declared = {"en", "fr"}
    /\ Cardinality(Steps("writeFile")) = 4

\* C9: when discovery returns no file, closeBundle reports it and returns
\* normally: nothing is thrown, no hook or extraction function is called, no
\* file is read, no directory is created and no artifact is written.
C9_EmptyDiscoveryReturns ==
    (pc # "closeBundle" /\ htmlFilePaths = << >>) =>
        /\ pc = "returned"
        /\ trace = <<Did("log.notFound", << >>, "", "", << >>)>>
        /\ fs = sourceFs
        /\ dirs = UNION {Ancestors(Dirname(p)) : p \in DOMAIN sourceFs} \cup {outputPath}
        /\ jsdomCount = 0
        /\ htmlResultFilePaths = << >>

\* discovery is empty although a page exists below the output directory
C9_Witness ==
    /\ pc = "returned"
    /\ htmlFilePaths = << >>
    /\ DOMAIN sourceFs # {}

\* C10: once a caller-supplied function has thrown, the exception has left
\* closeBundle and the run does nothing more: the throw is the last thing
\* the run did, whatever files and languages remain.
C10_ThrowAbortsRun ==
    /\ \A i \in Steps("throw") :
        /\ i = Len(trace)
        /\ pc = "thrown"
        /\ i > 1 /\ trace[i - 1].op \in HookOps
    /\ pc = "thrown" => (trace # << >> /\ trace[Len(trace)].op = "throw")

\* a hook throws in the first language while a second file and a second
\* language are still to come
C10_Witness ==
    /\ pc = "thrown"
    /\ langIdx = 1 /\ fileIdx = 1
    /\ Len(htmlFilePaths) = 2
    /\ Len(options.languages) = 2
    /\ fs = sourceFs

\* the value of key K in the table of language L, undefined when absent
TableValue(K, L) ==
    IF K \in DOMAIN options.translations[L]
    THEN options.translations[L][K] ELSE Undefined

\* the rendered fragment R of key K in language L
Rendered(K, L) ==
    IF options.formatTranslation
    THEN FormatTranslation(TableValue(K, L), K, L)
    ELSE IF TableValue(K, L) \in {Undefined, EmptyString}
         THEN EmptyString ELSE TableValue(K, L)

\* the elements a pass has dealt with so far: those of the Document in
\* progress that elements.forEach has visited, and the selected elements of
\* the texts serialized for the language in progress
Visited ==
    (IF pc = "elements"
     THEN {document.elems[elements[j]] : j \in 1..(elemIdx - 1)} ELSE {})
    \cup UNION {{u.html.elems[i] : i \in {n \in DOMAIN u.html.elems :
                                            u.html.elems[n].matches}}
                : u \in Range(updatedHtmlFiles)}

\* C2 as stated: in every pass the inner content of every selected element
\* whose extracted key K is not null is R, the format hook's result for
\* table[L][K] when one is configured and table[L][K] (or the empty string)
\* otherwise.
C2_NonNullKeyReplaced ==
    langIdx > 0 =>
        \A el \in Visited : el.key # Null => el.inner = Rendered(el.key, lang)

\* C2, amended: in every pass the inner content of every selected element
\* whose extracted key K is neither null nor the empty string is R, the
\* format hook's result for table[L][K] when one is configured and
\* table[L][K] (or the empty string) otherwise; an element whose key is the
\* empty string keeps its content.
C2_TruthyKeyReplaced ==
    langIdx > 0 =>
        \A el \in Visited :
            /\ el.key \notin {Null, ""} => el.inner = Rendered(el.key, lang)
            /\ el.key = "" => el.inner = Str("x")

\* the README's example: no hook, "Hello" in en/index.html and "Bonjour" in
\* fr/index.html, inside the same element
C2_Witness ==
    /\ pc = "done"
    /\ ~options.formatTranslation /\ ~options.modifyElement
    /\ ~options.modifyDocumentBefore /\ ~options.modifyDocumentAfter
    /\ <<"dist", "fr", "index.html">> \in DOMAIN fs
    /\ \E i \in DOMAIN fs[<<"dist", "en", "index.html">>].elems :
        /\ fs[<<"dist", "en", "index.html">>].elems[i].inner = Str("Hello")
        /\ fs[<<"dist", "fr", "index.html">>].elems[i].inner = Str("Bonjour")

\* C5 as stated: when the key has no value in the table, the value handed to
\* formatTranslation and to modifyElement is the empty string, and so is
\* the default inner content of the element.
C5_MissingValueIsEmptyString ==
    \A i \in Steps("formatTranslation") \cup Steps("modifyElement")
                \cup Steps("innerHTML") :
        trace[i].key \notin DOMAIN options.translations[trace[i].lang] =>
            /\ trace[i].op \in {"formatTranslation", "modifyElement"}
                => trace[i].value = EmptyString
            /\ (trace[i].op = "innerHTML" /\ ~options.formatTranslation)
                => trace[i].value = EmptyString

\* the element looked up at step i got a 'Translation not found' warning
Warned(i) ==
    /\ i + 2 <= Len(trace)
    /\ trace[i + 1].op = "missingTranslationVerboseFilter"
    /\ trace[i + 2].op = "warn"

\* the filter, consulted for the element looked up at step i, threw
FilterThrew(i) ==
    /\ i + 2 <= Len(trace)
    /\ trace[i + 1].op = "missingTranslationVerboseFilter"
    /\ trace[i + 2].op = "throw"

\* C6 as stated: an element with key K gets a warning exactly when K is
\* absent from table[L], verbose is true and the filter returns true; a key
\* present with any string value gets none, there is one warning per such
\* element, and the filter is not consulted when verbose is false.
C6_WarningIffKeyAbsent ==
    /\ \A i \in Steps("lookup") :
        ~FilterThrew(i) =>
            (Warned(i) <=>
                /\ trace[i].key \notin DOMAIN options.translations[trace[i].lang]
                /\ options.verbose
                /\ MissingTranslationVerboseFilter(
                        options.missingTranslationVerboseFilter,
                        trace[i].key, trace[i].lang))
    /\ \A i \in Steps("warn") : i > 2 /\ Warned(i - 2)
    /\ ~options.verbose => Steps("missingTranslationVerboseFilter") = {}

\* the steps of a (file, language) pass, in the order the claim gives them
Rank(op) ==
    CASE op = "readFile" -> 0
      [] op = "modifyDocumentBefore" -> 1
      [] op = "getTranslationKey" -> 2
      [] op = "lookup" -> 3
      [] op = "missingTranslationVerboseFilter" -> 4
      [] op = "warn" -> 5
      [] op = "formatTranslation" -> 6
      [] op = "innerHTML" -> 7
      [] op = "modifyElement" -> 8
      [] op = "modifyDocumentAfter" -> 9
      [] op = "serialize" -> 10
      [] op = "throw" -> 11
      [] OTHER -> 12

SamePass(i, j) == trace[i].file = trace[j].file /\ trace[i].lang = trace[j].lang

\* where the pass in progress, or the last one, began
PassStart == CHOOSE i \in Steps("readFile") : \A j \in Steps("readFile") : j <= i

\* the keys extracted so far in that pass, in the order of extraction
RECURSIVE KeysFrom(_)
KeysFrom(i) ==
    IF i > Len(trace) THEN << >>
    ELSE (IF trace[i].op = "getTranslationKey" THEN <<trace[i].key>> ELSE << >>)
            \o KeysFrom(i + 1)

\* C3: every pass is one unbroken run of steps for its (file, language):
\* the before-hook once, right after the parse; then, for each selected
\* element in document order, key extraction, lookup, format and mutate in
\* that order; then the after-hook once, after the last element; then
\* serialization.  What the before-hook set is seen by every later hook of
\* the pass.
C3_HookOrder ==
    /\ \A i \in DOMAIN trace : \A j \in DOMAIN trace :
        (trace[i].op = "readFile" /\ trace[j].op = "readFile" /\ SamePass(i, j))
            => i = j
    /\ \A i \in DOMAIN trace :
        Rank(trace[i].op) \in 1..11 =>
            /\ i > 1
            /\ SamePass(i - 1, i)
            /\ Rank(trace[i - 1].op) < Rank(trace[i].op)
                \/ /\ trace[i].op = "getTranslationKey"
                   /\ trace[i - 1].op \in
                        {"getTranslationKey", "innerHTML", "modifyElement"}
    /\ \A i \in DOMAIN trace :
        /\ trace[i].op = "modifyDocumentBefore" => options.modifyDocumentBefore
        /\ trace[i].op = "modifyDocumentAfter" => options.modifyDocumentAfter
        /\ trace[i].op = "formatTranslation" => options.formatTranslation
        /\ trace[i].op = "modifyElement" => options.modifyElement
        /\ (trace[i].op = "readFile" /\ i < Len(trace) /\ options.modifyDocumentBefore)
            => trace[i + 1].op = "modifyDocumentBefore"
        /\ (trace[i].op = "serialize" /\ options.modifyDocumentAfter)
            => trace[i - 1].op = "modifyDocumentAfter"
        /\ (trace[i].op = "lookup") => trace[i - 1].op = "getTranslationKey"
        /\ (trace[i].op = "innerHTML" /\ options.formatTranslation)
            => trace[i - 1].op = "formatTranslation"
        /\ (trace[i].op = "innerHTML" /\ options.modifyElement)
            => (i < Len(trace) /\ trace[i + 1].op = "modifyElement")
        /\ (options.modifyDocumentBefore /\ Rank(trace[i].op) \in 2..10)
            => trace[i].seen = trace[i].lang
    /\ (trace # << >> /\ trace[Len(trace)].op = "serialize") =>
        KeysFrom(PassStart) =
            [j \in 1..Len(QuerySelectorAll(document)) |->
                document.elems[QuerySelectorAll(document)[j]].key]

\* the second pass of a run with every hook configured is over: its
\* before-hook has run, two elements were mutated, its after-hook has run
C3_Witness ==
    /\ options.modifyDocumentBefore /\ options.modifyDocumentAfter
    /\ options.modifyElement /\ options.formatTranslation
    /\ Cardinality(Steps("serialize")) = 2
    /\ trace[Len(trace)].op = "serialize"
    /\ Cardinality({i \in Steps("modifyElement") : i > PassStart}) = 2

\* C4 as stated: with deleteSourceHtmlFiles set, a completed run has
\* deleted every discovered source file and left every artifact in place,
\* and no source file is gone while the run is still writing.
C4_SourcesDeletedAfterAllWrites ==
    options.deleteSourceHtmlFiles =>
        /\ pc = "done" =>
            \A F \in Discovered :
                /\ F \notin DOMAIN fs
                /\ \A L \in Declared : Destination(F, L) \in DOMAIN fs
        /\ pc \in {"readFile", "modifyDocumentBefore", "elements", "writeFile"} =>
            \A F \in Discovered : F \in DOMAIN fs

RECURSIVE TranslateFrom(_, _, _, _, _)
\* elements.forEach from the j-th selected element on, no call throwing
TranslateFrom(doc, selected, j, file, language) ==
    IF j > Len(selected) THEN doc
    ELSE TranslateFrom(ElementPass(doc, selected[j], file, language, "none").doc,
                       selected, j + 1, file, language)

\* the text a pass for (file, language) makes of html when it runs alone
IsolatedPass(html, file, language) ==
    LET parsed == Parse(html, 0)
        before == IF options.modifyDocumentBefore
                  THEN ModifyDocumentBefore(parsed, language) ELSE parsed
        translated == TranslateFrom(before, QuerySelectorAll(before), 1,
                                    file, language)
        after == IF options.modifyDocumentAfter
                 THEN ModifyDocumentAfter(translated, language) ELSE translated
    IN Serialize(after)

\* C7 as stated: every pass parses a Document of its own from the text of
\* the source file, so the artifact of (F, M) is what the pass for (F, M)
\* makes of the source text of F on its own, whatever the passes of the
\* other languages did.
C7_DocumentIsolation ==
    /\ jsdomCount = Cardinality(Steps("readFile"))
    /\ document.id = jsdomCount
    /\ \A i \in Steps("readFile") :
        \A j \in Steps("readFile") : SamePass(i, j) => i = j
    /\ langIdx > 0 =>
        \A u \in Range(updatedHtmlFiles) :
            u.html = IsolatedPass(sourceFs[u.filePath], u.filePath, lang)
    /\ \A i \in Steps("writeFile") :
        fs[trace[i].path] =
            IsolatedPass(sourceFs[trace[i].file], trace[i].file, trace[i].lang)

\* C8 as stated: without source deletion, no write of the run targets a
\* discovered source file, every source file keeps its content, and no two
\* writes target one path.
C8_SourcesUntouched ==
    ~options.deleteSourceHtmlFiles =>
        /\ \A i \in Steps("writeFile") : trace[i].path \notin Discovered
        /\ \A F \in Discovered : F \in DOMAIN fs /\ fs[F] = sourceFs[F]
        /\ \A i \in Steps("writeFile") : \A j \in Steps("writeFile") :
            trace[i].path = trace[j].path => i = j

\* the elements of the Document in progress that the substitution step has
\* to leave alone: those the selector does not match, those without a key,
\* and those elements.forEach has not reached
LeftAlone ==
    {n \in DOMAIN document.elems :
        \/ ~document.elems[n].matches
        \/ GetTranslationKey(document.elems[n]) = Null
        \/ \E j \in elemIdx..Len(elements) : elements[j] = n}

\* no artifact of the language in progress is written yet, so that the files
\* on disk are the texts its passes have parsed
BeforeWrites ==
    \/ pc \in {"readFile", "modifyDocumentBefore", "elements"}
    \/ pc = "writeFile" /\ fileIdx = 1

\* C11: a selected element for which the extraction function gives null is
\* skipped: it stays as parsed, and nothing is looked up, warned about,
\* formatted or mutated for it; an element the selector does not match, or
\* that the pass has not reached, stays as parsed too.
C11_NullKeySkipped ==
    /\ \A i \in DOMAIN trace :
        trace[i].key = Null =>
            /\ trace[i].op = "getTranslationKey"
            /\ i < Len(trace) =>
                trace[i + 1].op \in {"getTranslationKey", "modifyDocumentAfter",
                                     "serialize", "throw"}
    /\ pc = "elements" =>
        \A n \in LeftAlone : document.elems[n] = fs[filePath].elems[n]
    /\ BeforeWrites =>
        \A u \in Range(updatedHtmlFiles) : \A n \in DOMAIN u.html.elems :
            (~u.html.elems[n].matches \/ u.html.elems[n].key = Null) =>
                u.html.elems[n] = fs[u.filePath].elems[n]

\* elements.forEach is through a page that holds a selected element without
\* a key and an element the selector does not match, every hook configured
C11_Witness ==
    /\ pc = "elements"
    /\ elemIdx > Len(elements)
    /\ options.formatTranslation /\ options.modifyElement /\ options.verbose
    /\ document.elems = <<Element(TRUE, Null), Element(FALSE, "hello")>>
    /\ trace[Len(trace)].op = "getTranslationKey"
    /\ trace[Len(trace)].key = Null

\* the selected elements of the Document in progress that elements.forEach
\* is through with and whose key satisfies Keyed
Through(Keyed(_)) ==
    {j \in 1..(elemIdx - 1) : Keyed(GetTranslationKey(document.elems[elements[j]]))}

\* with a mutate hook configured: it has been called once for each such
\* element of the Document in progress, it found the element's inner content
\* already replaced with R and was given V; every call of the run comes
\* right after the replacement of the same element's inner content with R,
\* with V as its value and the key and language of that element in its meta
MutateHookCalls(Keyed(_)) ==
    options.modifyElement =>
        /\ pc = "elements" =>
            /\ Cardinality({i \in Steps("modifyElement") : i > PassStart})
                    = Cardinality(Through(Keyed))
            /\ \A j \in Through(Keyed) :
                LET el == document.elems[elements[j]]
                IN  el.stamp = <<TableValue(el.key, lang), Rendered(el.key, lang)>>
        /\ \A i \in Steps("modifyElement") :
            /\ trace[i].value = TableValue(trace[i].key, trace[i].lang)
            /\ trace[i - 1].op = "innerHTML"
            /\ trace[i - 1].key = trace[i].key
            /\ trace[i - 1].lang = trace[i].lang
            /\ trace[i - 1].file = trace[i].file
            /\ trace[i - 1].value = Rendered(trace[i].key, trace[i].lang)

NonNullKey(key) == key # Null

\* C12 as stated: a configured mutate hook is called exactly once per
\* selected element whose key is not null, after the element's inner content
\* has been replaced with R, with the table value V (not R) as its value and
\* the element's key and the language in its meta.
C12_MutateHookPerNonNullKey == MutateHookCalls(NonNullKey)

\* C12: a configured mutate hook is called exactly once per selected element
\* whose key is neither null nor the empty string, after the element's inner
\* content has been replaced with R, with the table value V (not R) as its
\* value and the element's key and the language in its meta.
C12_MutateHookPerTruthyKey == MutateHookCalls(TruthyKey)

\* with a format hook and a mutate hook, the mutate hook was given "Hello"
\* and found "<b>Hello</b>" in the element
C12_Witness ==
    /\ pc = "elements"
    /\ elemIdx > Len(elements)
    /\ options.formatTranslation /\ options.modifyElement
    /\ \E j \in DOMAIN elements :
        /\ document.elems[elements[j]].key = "hello"
        /\ document.elems[elements[j]].stamp =
                <<Str("Hello"), <<"<b>", "Hello", "</b>">>>>
    /\ trace[Len(trace)].op = "modifyElement"
    /\ trace[Len(trace)].value = Str("Hello")

\* the place of language L in Object.keys(translations)
Position(L) == CHOOSE n \in DOMAIN options.languages : options.languages[n] = L

\* the steps of the passes, in order: those made for a file and a language
InPass(e) == e.lang \in Declared
PassSteps == SelectSeq(trace, InPass)

\* the (file, language, path) of the artifacts written so far
Written == {<<trace[i].file, trace[i].lang, trace[i].path>> : i \in Steps("writeFile")}

\* C13: within a language every discovered file is read, processed and
\* serialized before any artifact of that language is written, and
\* languages are handled in the key order of the translations table; so when
\* a hook throws in the i-th language, the artifacts written are exactly
\* those of all files for languages 1..i-1.
C13_LanguageByLanguage ==
    /\ \A i \in Steps("writeFile") :
        /\ \A F \in Discovered :
            \E r \in Steps("readFile"), z \in Steps("serialize") :
                /\ r < z /\ z < i
                /\ trace[r].file = F /\ trace[r].lang = trace[i].lang
                /\ trace[z].file = F /\ trace[z].lang = trace[i].lang
        /\ \A j \in (i + 1)..Len(trace) :
            trace[j].lang = trace[i].lang => trace[j].op \in {"mkdir", "writeFile"}
    /\ LET steps == PassSteps
       IN  \A i \in 2..Len(steps) :
            Position(steps[i - 1].lang) <= Position(steps[i].lang)
    /\ pc = "thrown" =>
        /\ trace[Len(trace)].op = "throw"
        /\ Position(trace[Len(trace)].lang) = langIdx
        /\ Written = {<<F, options.languages[n], Destination(F, options.languages[n])>> :
                        F \in Discovered, n \in 1..(langIdx - 1)}
        /\ Cardinality(Steps("writeFile")) = Len(htmlFilePaths) * (langIdx - 1)

\* a hook threw in the second language of a build of two pages: the two
\* artifacts of the first language are written, none of the second
C13_Witness ==
    /\ pc = "thrown"
    /\ langIdx = 2
    /\ Len(htmlFilePaths) = 2
    /\ Cardinality(Steps("writeFile")) = 2
    /\ \A i \in Steps("writeFile") : trace[i].lang = options.languages[1]
    /\ \E i \in Steps("readFile") : trace[i].lang = options.languages[2]

====
